---- MODULE Spec2Model ----
(***************************************************************************)
(* Model of bip_peer's piece checker                                       *)
(* (src/bip_peer/src/disk/worker/disk_worker/piece_checker.rs):            *)
(*   - merge_piece_messages, the block-range merger;                       *)
(*   - PieceCheckerState, the piece state tracker;                         *)
(*   - PieceChecker, file-size validation and the hashing pass.            *)
(* Offsets and lengths stay far below 2^32, so the u32 arithmetic of the   *)
(* merger never overflows in the modelled runs.                            *)
(***************************************************************************)
EXTENDS Integers, Sequences, FiniteSets, TLC

\* ------------------------------------------------------------------------
\* Bounds of the model
\* ------------------------------------------------------------------------
\* Nominal piece length of the torrent, in bytes.
PieceLength == 2
\* Number of piece indices the block notifications range over.
NumPieces == 2
\* Largest number of block descriptors held for all pieces together.
MaxBlocks == 2
\* Largest number of undrained verdicts in new_states.
MaxNew == 2
\* Largest length of a file of the torrent, and largest size of a file on disk.
MaxFileSize == 2

VARIABLES
    \* PieceCheckerState
    new_states,       \* Vec<PieceState>
    old_states,       \* HashSet<PieceState>
    pending_blocks,   \* HashMap<u32, Vec<PieceMessage>>
    \* the thread running the tracker
    panicked,         \* TRUE once an operation of the tracker has panicked
    \* observations of the last operation
    lastOp,           \* name of the last operation
    calls,            \* piece indices handed to the verify callback by the last pass, in order
    result,           \* "ok", "err" or "panic": how the last pass ended
    diff_calls,       \* verdicts handed to the diff callback by the last drain, in order
    blocks,           \* per piece index, the (offset, length) pairs of every add_pending_block so far
    \* PieceChecker and what it works on
    info_dict,        \* the InfoDictionary the checker borrows
    fs,               \* the file system: size of the file at each path, or Absent
    fs0,              \* the file system as it was before PieceChecker::new
    writes,           \* the write_file calls made so far, in order
    steps,            \* the steps of checker construction made so far, in order
    checker,          \* "unbuilt", "built", "failed" or "consumed": the PieceChecker value
    owner,            \* who holds the PieceCheckerState: "nobody", "checker", "caller" or "dropped"
    returned,         \* what the last call of the checker returned to the caller
    \* the merger called on its own
    message_a,
    message_b,
    merged_ab,        \* merge_piece_messages(message_a, message_b), once called
    merged_ba         \* merge_piece_messages(message_b, message_a), once called

trackerVars == <<new_states, old_states, pending_blocks, panicked>>
obsVars == <<lastOp, calls, result, diff_calls, blocks>>
checkerVars == <<info_dict, fs, fs0, writes, steps, checker, owner, returned>>
mergeVars == <<message_a, message_b, merged_ab, merged_ba>>
vars == <<trackerVars, obsVars, checkerVars, mergeVars>>

\* ------------------------------------------------------------------------
\* Values
\* ------------------------------------------------------------------------
Pieces == 0 .. (NumPieces - 1)

\* PieceMessage::new(piece_index, block_offset, block_length)
PieceMessage(piece_index, block_offset, block_length) ==
    [piece_index |-> piece_index, block_offset |-> block_offset, block_length |-> block_length]

\* PieceState::Good(i), PieceState::Bad(i)
Good(i) ==
    <<"Good", i>>

Bad(i) ==
    <<"Bad", i>>

\* Option<PieceMessage>
None ==
    <<>>

Some(x) ==
    <<x>>

Max(x, y) ==
    IF x >= y THEN x ELSE y

Range(s) ==
    {s[k] : k \in 1 .. Len(s)}

\* Bytes [offset, offset + length) of a descriptor.
ByteSet(m) ==
    {x \in 0 .. (m.block_offset + m.block_length) : x >= m.block_offset /\ x < m.block_offset + m.block_length}

\* ------------------------------------------------------------------------
\* merge_piece_messages
\* ------------------------------------------------------------------------
\* The length handed to PieceMessage::new for the merged descriptor: max_end.
MergedLength(start, max_end) ==
    max_end

SecondBranchStart_StartA(start_a, start_b) ==
    start_a

\* The offset of the merged descriptor in the second branch: start_b.
SecondBranchStart(start_a, start_b) ==
    start_b

\* "start_x falls between the other message's start and end", bounds included.
MergeTest(start_x, start_y, end_y) ==
    start_x >= start_y /\ start_x <= end_y

merge_piece_messages(a, b) ==
    LET start_a == a.block_offset
        end_a == start_a + a.block_length
        start_b == b.block_offset
        end_b == start_b + b.block_length
        max_end == Max(end_a, end_b)
    IN  IF MergeTest(start_b, start_a, end_a)
        THEN Some(PieceMessage(a.piece_index, start_a, MergedLength(start_a, max_end)))
        ELSE IF MergeTest(start_a, start_b, end_b)
             THEN Some(PieceMessage(a.piece_index, SecondBranchStart(start_a, start_b),
                                    MergedLength(start_b, max_end)))
             ELSE None

\* ------------------------------------------------------------------------
\* PieceCheckerState
\* ------------------------------------------------------------------------
\* PieceCheckerState::new()
NewState ==
    [new_states |-> <<>>, old_states |-> {}, pending_blocks |-> <<>>]

\* HashMap iteration orders: for every key set, every arrangement of its keys.
Orders ==
    [keys \in SUBSET Pieces |->
        {o \in [1 .. Cardinality(keys) -> keys] :
            \A j, k \in 1 .. Cardinality(keys) : o[j] = o[k] => j = k}]

\* entry(msg.piece_index).or_insert(Vec::new()).push(msg)
add_pending_block(pending, msg) ==
    IF msg.piece_index \in DOMAIN pending
    THEN [pending EXCEPT ![msg.piece_index] = Append(@, msg)]
    ELSE [k \in (DOMAIN pending) \cup {msg.piece_index} |->
            IF k = msg.piece_index THEN <<msg>> ELSE pending[k]]

run_with_diff_GoodOnly(new, old) ==
    [new_states |-> <<>>,
     old_states |-> old \cup {v \in Range(new) : v[1] = "Good"},
     diff_calls |-> new]

\* for piece_state in new_states.drain(..) { callback(&piece_state); old_states.insert(piece_state) }
run_with_diff(new, old) ==
    [new_states |-> <<>>,
     old_states |-> old \cup Range(new),
     diff_calls |-> new]

\* messages.sort_by(|a, b| a.block_offset().cmp(&b.block_offset())), a stable sort
RECURSIVE InsertByOffset(_, _)
InsertByOffset(sorted, m) ==
    IF sorted = <<>> \/ sorted[Len(sorted)].block_offset <= m.block_offset
    THEN Append(sorted, m)
    ELSE Append(InsertByOffset(SubSeq(sorted, 1, Len(sorted) - 1), m), sorted[Len(sorted)])

RECURSIVE SortByOffset(_)
SortByOffset(messages) ==
    IF messages = <<>>
    THEN <<>>
    ELSE InsertByOffset(SortByOffset(SubSeq(messages, 1, Len(messages) - 1)), messages[Len(messages)])

\* Vec::remove(index), index counted from 0: panics when index >= len.
VecRemove(v, index) ==
    IF index < Len(v)
    THEN [panic |-> FALSE,
          item |-> v[index + 1],
          vec |-> [k \in 1 .. (Len(v) - 1) |-> IF k <= index THEN v[k] ELSE v[k + 1]]]
    ELSE [panic |-> TRUE, item |-> None, vec |-> v]

SecondRemoveIndex_LenMinusTwo(messages_len) ==
    messages_len - 2

\* Index of the second messages.remove(..) of the merge loop; messages_len is
\* the length the vector had before the first removal.
SecondRemoveIndex(messages_len) ==
    messages_len - 1

\* The while loop of merge_pieces over one piece's sorted messages.
RECURSIVE MergeLoop(_)
MergeLoop(messages) ==
    IF Len(messages) > 1
    THEN LET messages_len == Len(messages)
             first == VecRemove(messages, messages_len - 1)
             second == VecRemove(first.vec, SecondRemoveIndex(messages_len))
             opt_merged == merge_piece_messages(first.item, second.item)
         IN  IF first.panic
             THEN [panic |-> TRUE, messages |-> first.vec]
             ELSE IF second.panic
                  THEN [panic |-> TRUE, messages |-> second.vec]
                  ELSE IF opt_merged # None
                       THEN MergeLoop(Append(second.vec, opt_merged[1]))
                       ELSE [panic |-> FALSE,
                             messages |-> second.vec \o <<second.item, first.item>>]
    ELSE [panic |-> FALSE, messages |-> messages]

\* merge_pieces: every entry of the map in iteration order; a panic ends it.
RECURSIVE merge_pieces(_, _)
merge_pieces(pending, order) ==
    IF order = <<>>
    THEN [panic |-> FALSE, pending |-> pending]
    ELSE LET index == Head(order)
             r == MergeLoop(SortByOffset(pending[index]))
             merged == [pending EXCEPT ![index] = r.messages]
         IN  IF r.panic
             THEN [panic |-> TRUE, pending |-> merged]
             ELSE merge_pieces(merged, Tail(order))

IsWholePiece_AnyLength(messages, piece_length) ==
    Len(messages) = 1

\* messages.len() == 1 && messages[0].block_length() == piece_length
IsWholePiece(messages, piece_length) ==
    Len(messages) = 1 /\ messages[1].block_length = piece_length

NotOldGood_Always(old, message) ==
    TRUE

\* !old_states.contains(&PieceState::Good(message.piece_index()))
NotOldGood(old, message) ==
    Good(message.piece_index) \notin old

\* The messages the for loop of run_with_whole_pieces visits, in iteration order.
RECURSIVE SelectedMessages(_, _, _, _)
SelectedMessages(pending, old, piece_length, order) ==
    IF order = <<>>
    THEN <<>>
    ELSE LET messages == pending[Head(order)]
             rest == SelectedMessages(pending, old, piece_length, Tail(order))
         IN  IF IsWholePiece(messages, piece_length) /\ NotOldGood(old, messages[1])
             THEN <<messages[1]>> \o rest
             ELSE rest

RECURSIVE VerifyLoop_NoAbort(_, _, _)
VerifyLoop_NoAbort(selected, out, acc) ==
    IF selected = <<>>
    THEN acc
    ELSE LET index == Head(selected).piece_index
             called == [acc EXCEPT !.calls = Append(@, index)]
         IN  IF out[index] \in {"err", "panic"}
             THEN VerifyLoop_NoAbort(Tail(selected), out, [called EXCEPT !.result = out[index]])
             ELSE VerifyLoop_NoAbort(Tail(selected), out,
                     [called EXCEPT !.new_states =
                         Append(@, IF out[index] = "good" THEN Good(index) ELSE Bad(index))])

\* The body of the for loop: callback, then push Good or Bad; an Err returns.
\* out[i] is what the callback does for piece i: it answers "good" or "bad",
\* returns "err", or panics ("panic").
RECURSIVE VerifyLoop(_, _, _)
VerifyLoop(selected, out, acc) ==
    IF selected = <<>>
    THEN acc
    ELSE LET index == Head(selected).piece_index
             called == [acc EXCEPT !.calls = Append(@, index)]
         IN  IF out[index] \in {"err", "panic"}
             THEN [called EXCEPT !.result = out[index]]
             ELSE VerifyLoop(Tail(selected), out,
                     [called EXCEPT !.new_states =
                         Append(@, IF out[index] = "good" THEN Good(index) ELSE Bad(index))])

\* run_with_whole_pieces(piece_length, callback), given what merge_pieces
\* left (m) and the messages the for loop visits (selected).
run_with_whole_pieces(new, m, selected, out) ==
    LET start == [new_states |-> new, pending_blocks |-> m.pending, calls |-> <<>>, result |-> "ok"]
    IN  IF m.panic
        THEN [start EXCEPT !.result = "panic"]
        ELSE VerifyLoop(selected, out, start)

\* The for loop's messages after merge_pieces; none when merge_pieces panicked.
MessagesOfPass(m, old, piece_length, order) ==
    IF m.panic
    THEN <<>>
    ELSE SelectedMessages(m.pending, old, piece_length, order)

\* One iteration order's pass up to the first callback: what merge_pieces
\* leaves and the messages the for loop then visits.
PassOf(pending, old, piece_length, order) ==
    LET m == merge_pieces(pending, order)
    IN  [m |-> m, selected |-> MessagesOfPass(m, old, piece_length, order)]

\* The piece indices of a sequence of messages.
IndicesOf(selected) ==
    {selected[k].piece_index : k \in 1 .. Len(selected)}

\* ------------------------------------------------------------------------
\* The file system, the piece reader and the hash (external collaborators)
\* ------------------------------------------------------------------------
\* The size recorded for a path no file exists at.
Absent ==
    -1

\* FileSystem::open_file: opens the file at path, creating it empty when absent.
open_file(files, path, ok) ==
    IF ok
    THEN [ok |-> TRUE, fs |-> IF files[path] = Absent THEN [files EXCEPT ![path] = 0] ELSE files]
    ELSE [ok |-> FALSE, fs |-> files]

\* FileSystem::file_size
file_size(files, path, ok) ==
    IF ok THEN [ok |-> TRUE, size |-> files[path]] ELSE [ok |-> FALSE, size |-> 0]

\* FileSystem::write_file: writes length bytes at offset; the file grows to
\* offset + length when it was shorter. A failed write leaves the file alone.
write_file(files, path, offset, length, ok) ==
    IF ok
    THEN [ok |-> TRUE, fs |-> [files EXCEPT ![path] = Max(@, offset + length)]]
    ELSE [ok |-> FALSE, fs |-> files]

\* Sum of the lengths of the files of an info dictionary.
RECURSIVE TotalLength(_)
TotalLength(files) ==
    IF files = <<>> THEN 0 ELSE Head(files).length + TotalLength(Tail(files))

\* True length of piece i: piece_length, but what is left for the last piece.
PieceBytesLen(info, i) ==
    IF i + 1 < Len(info.pieces)
    THEN info.piece_length
    ELSE IF i + 1 = Len(info.pieces)
         THEN TotalLength(info.files) - i * info.piece_length
         ELSE 0

\* The bytes of piece i on disk: every byte of piece i is i + 1.
OnDisk(info, i) ==
    [k \in 1 .. PieceBytesLen(info, i) |-> i + 1]

\* PieceReader::read_piece(buffer, message): fills the front of the buffer
\* with the bytes of the message's range that exist on disk; the rest of the
\* buffer keeps what it held.
read_piece(buffer, message, info, ok) ==
    LET bytes == OnDisk(info, message.piece_index)
        last == IF message.block_offset + message.block_length <= Len(bytes)
                THEN message.block_offset + message.block_length
                ELSE Len(bytes)
        got == IF message.block_offset < last
               THEN SubSeq(bytes, message.block_offset + 1, last)
               ELSE <<>>
    IN  IF ok
        THEN [ok |-> TRUE,
              buffer |-> [k \in 1 .. Len(buffer) |-> IF k <= Len(got) THEN got[k] ELSE buffer[k]]]
        ELSE [ok |-> FALSE, buffer |-> buffer]

\* build_path: the parent directory ("." when there is none), then "/" and
\* the segment for every path segment of the file. The path is kept as the
\* sequence of the strings pushed.
RECURSIVE PushSegments(_, _)
PushSegments(acc, items) ==
    IF items = <<>>
    THEN acc
    ELSE PushSegments(acc \o <<"/", Head(items)>>, Tail(items))

build_path(parent_directory, file) ==
    PushSegments(<<IF parent_directory = None THEN "." ELSE parent_directory[1]>>, file.paths)

\* The file holding byte g of the torrent's data and the byte's offset in it.
RECURSIVE FileRegion(_, _, _)
FileRegion(files, k, g) ==
    IF g < files[k].length
    THEN [file |-> k, offset |-> g]
    ELSE FileRegion(files, k + 1, g - files[k].length)

\* The piece reader can read piece i only when every byte of the piece is
\* inside the file that holds it.
Readable(info, files, i) ==
    \A g \in (i * info.piece_length) .. (i * info.piece_length + PieceBytesLen(info, i) - 1) :
        LET region == FileRegion(info.files, 1, g)
            size == files[build_path(info.directory, info.files[region.file])]
        IN  region.offset < size

\* InfoHash::from_bytes: a digest that tells apart any two byte strings.
RECURSIVE Hash(_)
Hash(bytes) ==
    IF bytes = <<>>
    THEN 1
    ELSE 10 * Hash(SubSeq(bytes, 1, Len(bytes) - 1)) + bytes[Len(bytes)] + 1

\* A digest no byte string of the model hashes to.
WrongDigest ==
    0

\* ------------------------------------------------------------------------
\* PieceChecker
\* ------------------------------------------------------------------------
\* Results handed back to the caller (TorrentResult).
NothingReturned ==
    [kind |-> "nothing", file_path |-> <<>>, expected_size |-> 0, actual_size |-> 0]

Ok ==
    [kind |-> "Ok", file_path |-> <<>>, expected_size |-> 0, actual_size |-> 0]

IoError ==
    [kind |-> "Io", file_path |-> <<>>, expected_size |-> 0, actual_size |-> 0]

ExistingFileSizeCheck(file_path, expected_size, actual_size) ==
    [kind |-> "ExistingFileSizeCheck", file_path |-> file_path,
     expected_size |-> expected_size, actual_size |-> actual_size]

NeedsAllocation_AnySize(size_matches, size_is_zero) ==
    ~size_matches

\* !size_matches && size_is_zero
NeedsAllocation(size_matches, size_is_zero) ==
    ~size_matches /\ size_is_zero

\* The offset of the one zero byte written to allocate a file.
AllocationOffset(expected_size) ==
    expected_size - 1

\* The body of the loop of validate_files_sizes for one file. io says which
\* file-system step fails, if any: "open_file", "file_size" or "write_file".
\* The visit of the file and a failed step are recorded in steps.
ValidateFile(visited, directory, file, io) ==
    LET acc == [visited EXCEPT !.steps = Append(@, "validate_file")]
        file_path == build_path(directory, file)
        expected_size == file.length
        opened == open_file(acc.fs, file_path, io # "open_file")
        sized == file_size(opened.fs, file_path, io # "file_size")
        actual_size == sized.size
        size_matches == actual_size = expected_size
        size_is_zero == actual_size = 0
        written == write_file(opened.fs, file_path, AllocationOffset(expected_size), 1, io # "write_file")
    IN  IF ~opened.ok
        THEN [acc EXCEPT !.steps = Append(@, "open_file failed"), !.result = IoError]
        ELSE IF ~sized.ok
             THEN [acc EXCEPT !.fs = opened.fs, !.steps = Append(@, "file_size failed"),
                              !.result = IoError]
             ELSE IF NeedsAllocation(size_matches, size_is_zero)
                  THEN [acc EXCEPT !.fs = written.fs,
                                   !.writes = Append(@, [file_path |-> file_path,
                                                         offset |-> AllocationOffset(expected_size),
                                                         size_at_open |-> actual_size,
                                                         ok |-> written.ok]),
                                   !.steps = IF written.ok THEN @ ELSE Append(@, "write_file failed")]
                  ELSE IF ~size_matches
                       THEN [acc EXCEPT !.fs = opened.fs,
                                        !.result = ExistingFileSizeCheck(file_path, expected_size, actual_size)]
                       ELSE [acc EXCEPT !.fs = opened.fs]

\* validate_files_sizes: the files in order; the first error returns, and
\* Ok(()) is returned after the last file.
RECURSIVE validate_files_sizes(_, _, _, _)
validate_files_sizes(acc, directory, files, plan) ==
    IF files = <<>>
    THEN [acc EXCEPT !.steps = Append(@, "validated")]
    ELSE LET next == ValidateFile(acc, directory, Head(files), Head(plan))
         IN  IF next.result # Ok
             THEN next
             ELSE validate_files_sizes(next, directory, Tail(files), Tail(plan))

\* fill_checker_state: one pending block per piece, offset 0, length piece_length.
RECURSIVE fill_checker_state(_, _, _)
fill_checker_state(pending, info, piece_index) ==
    IF piece_index >= Len(info.pieces)
    THEN pending
    ELSE fill_checker_state(
            add_pending_block(pending, PieceMessage(piece_index, 0, info.piece_length)),
            info, piece_index + 1)

\* The add_pending_block calls of fill_checker_state, as construction steps.
SeedSteps(info) ==
    [k \in 1 .. Len(info.pieces) |-> "add_pending_block"]

ValidationPassed_Always(validation) ==
    TRUE

\* try!(piece_checker.validate_files_sizes()): new goes on only after Ok.
ValidationPassed(validation) ==
    validation = Ok

\* The closure calculate_diff hands to run_with_whole_pieces, for one message:
\* read the piece into the buffer, hash the whole buffer, compare with the
\* expected hash at the message's index (a missing hash panics).
VerifyPiece(buffer, message, info, read_ok) ==
    LET read == read_piece(buffer, message, info, read_ok)
        calculated_hash == Hash(read.buffer)
    IN  IF ~read.ok
        THEN [outcome |-> "err", buffer |-> read.buffer]
        ELSE IF message.piece_index + 1 > Len(info.pieces)
             THEN [outcome |-> "panic", buffer |-> read.buffer]
             ELSE [outcome |-> IF calculated_hash = info.pieces[message.piece_index + 1]
                               THEN "good" ELSE "bad",
                   buffer |-> read.buffer]

\* What the closure does for every message of a pass, the buffer being shared
\* by the calls; failing holds the piece indices whose read fails.
RECURSIVE ClosureOutcomes(_, _, _, _)
ClosureOutcomes(selected, buffer, info, failing) ==
    IF selected = <<>>
    THEN <<>>
    ELSE LET message == Head(selected)
             v == VerifyPiece(buffer, message, info, message.piece_index \notin failing)
         IN  <<v.outcome>> \o ClosureOutcomes(Tail(selected), v.buffer, info, failing)

\* ------------------------------------------------------------------------
\* The tracker driven by its three operations
\* ------------------------------------------------------------------------
\* Block descriptors a caller may announce: any offset inside the piece and
\* any nonzero length up to the piece length (so some reach past the piece).
BlockOffsets ==
    0 .. (PieceLength - 1)

BlockLengths ==
    1 .. PieceLength

Outcomes ==
    {"good", "bad", "err"}

\* Number of descriptors held in the map, all pieces together.
TotalBlocks(pending) ==
    Cardinality({kj \in (DOMAIN pending) \X (1 .. MaxBlocks + 1) : kj[2] <= Len(pending[kj[1]])})

NoMergeCall ==
    "uncalled"

\* No checker is involved: the tracker or the merger is used on its own.
CheckerIdle ==
    /\ info_dict = [piece_length |-> PieceLength, pieces |-> <<>>, directory |-> None, files |-> <<>>]
    /\ fs = <<>>
    /\ fs0 = <<>>
    /\ writes = <<>>
    /\ steps = <<>>
    /\ checker = "unbuilt"
    /\ owner = "caller"
    /\ returned = NothingReturned

MergeIdle ==
    /\ message_a = PieceMessage(0, 0, 0)
    /\ message_b = PieceMessage(0, 0, 0)
    /\ merged_ab = NoMergeCall
    /\ merged_ba = NoMergeCall

TrackerInit ==
    /\ new_states = NewState.new_states
    /\ old_states = NewState.old_states
    /\ pending_blocks = NewState.pending_blocks
    /\ panicked = FALSE
    /\ lastOp = "new"
    /\ calls = <<>>
    /\ result = "ok"
    /\ diff_calls = <<>>
    /\ blocks = [i \in Pieces |-> {}]
    /\ CheckerIdle
    /\ MergeIdle

AddPendingBlock ==
    /\ ~panicked
    /\ owner = "caller"
    /\ TotalBlocks(pending_blocks) < MaxBlocks
    /\ \E i \in Pieces, offset \in BlockOffsets, length \in BlockLengths :
          /\ pending_blocks' = add_pending_block(pending_blocks, PieceMessage(i, offset, length))
          /\ blocks' = [blocks EXCEPT ![i] = @ \cup {<<offset, length>>}]
    /\ lastOp' = "add_pending_block"
    /\ calls' = <<>>
    /\ result' = "ok"
    /\ diff_calls' = <<>>
    /\ UNCHANGED <<new_states, old_states, panicked, checkerVars, mergeVars>>

RunWithWholePieces ==
    /\ ~panicked
    /\ owner = "caller"
    /\ \E p \in {PassOf(pending_blocks, old_states, PieceLength, order) :
                      order \in Orders[DOMAIN pending_blocks]} :
       \E out \in [IndicesOf(p.selected) -> Outcomes] :
       \E r \in {run_with_whole_pieces(new_states, p.m, p.selected, out)} :
          /\ Len(r.new_states) <= MaxNew
          /\ new_states' = r.new_states
          /\ pending_blocks' = r.pending_blocks
          /\ calls' = r.calls
          /\ result' = r.result
          /\ panicked' = (r.result = "panic")
    /\ lastOp' = "run_with_whole_pieces"
    /\ diff_calls' = <<>>
    /\ UNCHANGED <<old_states, blocks, checkerVars, mergeVars>>

RunWithDiff ==
    /\ ~panicked
    /\ owner = "caller"
    /\ LET r == run_with_diff(new_states, old_states)
       IN  /\ new_states' = r.new_states
           /\ old_states' = r.old_states
           /\ diff_calls' = r.diff_calls
    /\ lastOp' = "run_with_diff"
    /\ calls' = <<>>
    /\ result' = "ok"
    /\ UNCHANGED <<pending_blocks, panicked, blocks, checkerVars, mergeVars>>

TrackerNext ==
    \/ AddPendingBlock
    \/ RunWithWholePieces
    \/ RunWithDiff

\* The tracker from PieceCheckerState::new() under any sequence of its operations.
SpecTracker ==
    TrackerInit /\ [][TrackerNext]_vars

\* ------------------------------------------------------------------------
\* The merger called on two descriptors of one piece
\* ------------------------------------------------------------------------
MergeInputs ==
    {PieceMessage(0, offset, length) : offset \in 0 .. PieceLength, length \in 0 .. PieceLength}

MergeInit ==
    /\ message_a \in MergeInputs
    /\ message_b \in MergeInputs
    /\ merged_ab = NoMergeCall
    /\ merged_ba = NoMergeCall
    /\ new_states = NewState.new_states
    /\ old_states = NewState.old_states
    /\ pending_blocks = NewState.pending_blocks
    /\ panicked = FALSE
    /\ lastOp = "new"
    /\ calls = <<>>
    /\ result = "ok"
    /\ diff_calls = <<>>
    /\ blocks = [i \in Pieces |-> {}]
    /\ CheckerIdle

MergeAB ==
    /\ merged_ab = NoMergeCall
    /\ merged_ab' = merge_piece_messages(message_a, message_b)
    /\ UNCHANGED <<message_a, message_b, merged_ba, trackerVars, obsVars, checkerVars>>

MergeBA ==
    /\ merged_ba = NoMergeCall
    /\ merged_ba' = merge_piece_messages(message_b, message_a)
    /\ UNCHANGED <<message_a, message_b, merged_ab, trackerVars, obsVars, checkerVars>>

MergeNext ==
    \/ MergeAB
    \/ MergeBA

\* merge_piece_messages applied to every pair of descriptors within the bounds.
SpecMerge ==
    MergeInit /\ [][MergeNext]_vars

\* ------------------------------------------------------------------------
\* The checker: PieceChecker::new, calculate_diff, then the caller's drain
\* ------------------------------------------------------------------------
\* The files of the torrent: path segments of each, lengths drawn by Init.
FilePaths ==
    <<(<<"a">>), (<<"sub", "b">>)>>

FileSizes ==
    0 .. MaxFileSize

\* Number of pieces of a torrent of total bytes: the last piece may be short.
PieceCount(total, piece_length) ==
    (total + piece_length - 1) \div piece_length

\* Info dictionaries: file lengths, an optional directory, and one digest per
\* piece, which is the digest of the piece's bytes on disk or a wrong one.
InfoDicts ==
    {[piece_length |-> PieceLength,
      pieces |-> [k \in 1 .. Len(good) |->
                    IF good[k]
                    THEN Hash(OnDisk([piece_length |-> PieceLength, pieces |-> good,
                                      directory |-> directory, files |-> files], k - 1))
                    ELSE WrongDigest],
      directory |-> directory,
      files |-> files] :
        <<directory, files, good>> \in
            {x \in {None, Some("t")}
                   \X {[k \in 1 .. Len(FilePaths) |-> [paths |-> FilePaths[k], length |-> lengths[k]]] :
                          lengths \in [1 .. Len(FilePaths) -> FileSizes]}
                   \X UNION {[1 .. n -> BOOLEAN] : n \in 0 .. NumPieces} :
                Len(x[3]) = PieceCount(TotalLength(x[2]), PieceLength)}}

PathsOf(info) ==
    {build_path(info.directory, info.files[k]) : k \in 1 .. Len(info.files)}

CheckerInit ==
    /\ info_dict \in InfoDicts
    /\ fs \in [PathsOf(info_dict) -> FileSizes \cup {Absent}]
    /\ fs0 = fs
    /\ writes = <<>>
    /\ steps = <<>>
    /\ checker = "unbuilt"
    /\ owner = "nobody"
    /\ returned = NothingReturned
    /\ new_states = NewState.new_states
    /\ old_states = NewState.old_states
    /\ pending_blocks = NewState.pending_blocks
    /\ panicked = FALSE
    /\ lastOp = "start"
    /\ calls = <<>>
    /\ result = "ok"
    /\ diff_calls = <<>>
    /\ blocks = [i \in Pieces |-> {}]
    /\ MergeIdle

IoSteps ==
    {"none", "open_file", "file_size", "write_file"}

\* PieceChecker::new(fs, info_dict): with_state over PieceCheckerState::new(),
\* validate_files_sizes, fill_checker_state.
New ==
    /\ checker = "unbuilt"
    /\ \E plan \in [1 .. Len(info_dict.files) -> IoSteps] :
       \E v \in {validate_files_sizes([fs |-> fs, writes |-> writes, steps |-> steps, result |-> Ok],
                                      info_dict.directory, info_dict.files, plan)} :
          /\ fs' = v.fs
          /\ writes' = v.writes
          /\ returned' = v.result
          /\ IF ValidationPassed(v.result)
             THEN /\ pending_blocks' = fill_checker_state(NewState.pending_blocks, info_dict, 0)
                  /\ blocks' = [i \in Pieces |->
                                  IF i < Len(info_dict.pieces) THEN {<<0, info_dict.piece_length>>} ELSE {}]
                  /\ steps' = v.steps \o SeedSteps(info_dict)
             ELSE /\ pending_blocks' = NewState.pending_blocks
                  /\ blocks' = blocks
                  /\ steps' = v.steps
          /\ IF v.result = Ok
             THEN /\ checker' = "built"
                  /\ owner' = "checker"
             ELSE /\ checker' = "failed"
                  /\ owner' = "dropped"
    /\ new_states' = NewState.new_states
    /\ old_states' = NewState.old_states
    /\ lastOp' = "new"
    /\ calls' = <<>>
    /\ result' = "ok"
    /\ diff_calls' = <<>>
    /\ UNCHANGED <<panicked, info_dict, fs0, mergeVars>>

\* The closure's outcomes, by piece index.
OutcomeByPiece(selected, outcomes) ==
    [i \in IndicesOf(selected) |->
        outcomes[CHOOSE k \in 1 .. Len(selected) : selected[k].piece_index = i]]

\* The buffer calculate_diff allocates: piece_length zero bytes.
ZeroBuffer(piece_length) ==
    [k \in 1 .. piece_length |-> 0]

\* calculate_diff(self): consumes the checker; Ok hands the tracker to the
\* caller, an Err returns the error alone and the tracker is dropped.
CalculateDiff ==
    /\ checker = "built"
    /\ ~panicked
    /\ \E p \in {PassOf(pending_blocks, old_states, info_dict.piece_length, order) :
                    order \in Orders[DOMAIN pending_blocks]} :
       \E failing \in {f \in SUBSET IndicesOf(p.selected) :
                          \A i \in IndicesOf(p.selected) : ~Readable(info_dict, fs, i) => i \in f} :
       \E out \in {OutcomeByPiece(p.selected,
                      ClosureOutcomes(p.selected, ZeroBuffer(info_dict.piece_length),
                                      info_dict, failing))} :
       \E r \in {run_with_whole_pieces(new_states, p.m, p.selected, out)} :
          /\ new_states' = r.new_states
          /\ pending_blocks' = r.pending_blocks
          /\ calls' = r.calls
          /\ result' = r.result
          /\ panicked' = (r.result = "panic")
          /\ returned' = IF r.result = "ok" THEN Ok
                         ELSE IF r.result = "err" THEN IoError ELSE NothingReturned
          /\ owner' = IF r.result = "ok" THEN "caller" ELSE "dropped"
    /\ checker' = "consumed"
    /\ lastOp' = "calculate_diff"
    /\ diff_calls' = <<>>
    /\ UNCHANGED <<old_states, blocks, info_dict, fs, fs0, writes, steps, mergeVars>>

CheckerNext ==
    \/ New
    \/ CalculateDiff
    \/ RunWithDiff

\* A checker built by PieceChecker::new over any info dictionary and file
\* system within the bounds, its calculate_diff, and the caller's drains.
SpecChecker ==
    CheckerInit /\ [][CheckerNext]_vars

\* ------------------------------------------------------------------------
\* The checker built on either path: PieceChecker::new or with_state
\* ------------------------------------------------------------------------
\* Trackers a caller restores: for some piece indices one pending descriptor
\* at offset 0 of any nonzero length up to the piece length, some pieces
\* confirmed Good, no undrained verdict.
RestoredTrackers ==
    {[new_states |-> <<>>,
      old_states |-> {Good(i) : i \in good},
      pending_blocks |-> [i \in DOMAIN lengths |-> <<PieceMessage(i, 0, lengths[i])>>]] :
        <<good, lengths>> \in
            (SUBSET Pieces) \X UNION {[keys -> BlockLengths] : keys \in SUBSET Pieces}}

\* PieceChecker::with_state(fs, info_dict, checker_state): the three fields
\* are stored; no file is opened and no block is added.
WithState ==
    /\ checker = "unbuilt"
    /\ \E checker_state \in RestoredTrackers :
          /\ new_states' = checker_state.new_states
          /\ old_states' = checker_state.old_states
          /\ pending_blocks' = checker_state.pending_blocks
          /\ blocks' = [i \in Pieces |->
                          IF i \in DOMAIN checker_state.pending_blocks
                          THEN {<<m.block_offset, m.block_length>> :
                                    m \in Range(checker_state.pending_blocks[i])}
                          ELSE {}]
    /\ checker' = "built"
    /\ owner' = "checker"
    /\ returned' = NothingReturned
    /\ lastOp' = "with_state"
    /\ calls' = <<>>
    /\ result' = "ok"
    /\ diff_calls' = <<>>
    /\ UNCHANGED <<panicked, info_dict, fs, fs0, writes, steps, mergeVars>>

ResumeNext ==
    \/ New
    \/ WithState
    \/ CalculateDiff
    \/ RunWithDiff

\* A checker built by PieceChecker::new or by with_state over a restored
\* tracker, its calculate_diff, and the caller's drains.
SpecResume ==
    CheckerInit /\ [][ResumeNext]_vars

\* ------------------------------------------------------------------------
\* Properties of the tracker
\* ------------------------------------------------------------------------
AllInside(i) ==
    \A b \in blocks[i] : b[1] + b[2] <= PieceLength

\* Bytes of piece i written by the blocks announced so far.
Coverage(i) ==
    UNION {ByteSet(PieceMessage(i, b[1], b[2])) : b \in blocks[i]}

WholePiece ==
    0 .. (PieceLength - 1)

Count(s, x) ==
    Cardinality({k \in 1 .. Len(s) : s[k] = x})

\* C1: the verify function is invoked for piece i only when the block writes
\* recorded for i, all inside the piece, cover every byte of the piece and the
\* pending list of i is the one descriptor offset 0 / length piece_length.
FullCoverageRequired ==
    \A k \in 1 .. Len(calls) :
        AllInside(calls[k]) =>
            /\ Coverage(calls[k]) = WholePiece
            /\ pending_blocks[calls[k]] = <<PieceMessage(calls[k], 0, PieceLength)>>

\* A pass verified piece 0 while piece 1, covered in part only, was left out.
FullCoverageWitness ==
    /\ lastOp = "run_with_whole_pieces"
    /\ calls = <<0>>
    /\ AllInside(0)
    /\ blocks[1] = {<<0, 1>>}

\* C2: once Good(i) is in old_states no pass invokes the verify function for
\* i, whatever blocks were added for i.
NoRehashOfConfirmed ==
    \A k \in 1 .. Len(calls) : Good(calls[k]) \notin old_states

\* A pass ran with piece 0 confirmed Good and still pending as a whole piece,
\* and verified piece 1 only.
NoRehashWitness ==
    /\ lastOp = "run_with_whole_pieces"
    /\ Good(0) \in old_states
    /\ 0 \in DOMAIN pending_blocks
    /\ IsWholePiece(pending_blocks[0], PieceLength)
    /\ calls = <<1>>

\* C3: when the block writes of a piece not confirmed Good cover the whole
\* piece, the next pass leaves the single descriptor offset 0 / length
\* piece_length and invokes the verify function for the piece exactly once
\* (a pass cut short by a verify error aside).
CoverageReconstruction ==
    (lastOp = "run_with_whole_pieces" /\ result # "err") =>
        \A i \in Pieces :
            (blocks[i] # {} /\ AllInside(i) /\ Coverage(i) = WholePiece /\ Good(i) \notin old_states) =>
                /\ Count(calls, i) = 1
                /\ pending_blocks[i] = <<PieceMessage(i, 0, PieceLength)>>

ErrorAbortsPass ==
    [][(lastOp' = "run_with_whole_pieces" /\ result' = "err") =>
          /\ Len(calls') >= 1
          /\ \A j, k \in 1 .. Len(calls') : calls'[j] = calls'[k] => j = k
          /\ Len(new_states') = Len(new_states) + Len(calls') - 1
          /\ SubSeq(new_states', 1, Len(new_states)) = new_states
          /\ \A k \in 1 .. (Len(calls') - 1) :
                new_states'[Len(new_states) + k] \in {Good(calls'[k]), Bad(calls'[k])}
          /\ old_states' = old_states
          /\ ~panicked']_vars

\* A pass verified one piece, then the verify function failed on the next:
\* the first verdict is kept and nothing was called after the failure.
ErrorAbortsWitness ==
    /\ lastOp = "run_with_whole_pieces"
    /\ result = "err"
    /\ Len(calls) = 2
    /\ Len(new_states) = 1
    /\ new_states[1] \in {Good(calls[1]), Bad(calls[1])}

\* Piece indices a Good verdict has been produced for and is still held,
\* undrained in new_states or confirmed in old_states.
ProvenGood(new, old) ==
    {i \in Pieces : Good(i) \in Range(new) \cup old}

\* C13: once a Good(i) verdict has been produced, still in new_states or
\* drained into old_states, no later pass invokes the verify function for i;
\* hence new_states never holds two verdicts for one piece index.
GoodIsTerminal ==
    /\ [](\A i \in Pieces : Count(new_states, Good(i)) + Count(new_states, Bad(i)) <= 1)
    /\ [][lastOp' = "run_with_whole_pieces" =>
             \A k \in 1 .. Len(calls') : calls'[k] \notin ProvenGood(new_states, old_states)]_vars

\* C14: after a pass has produced a verdict for piece i, pending_blocks no
\* longer holds the descriptors of i that led to the verdict.
PassConsumesPending ==
    lastOp = "run_with_whole_pieces" =>
        \A i \in Pieces :
            (\E k \in 1 .. Len(calls) : calls[k] = i /\ (k < Len(calls) \/ result = "ok")) =>
                (i \notin DOMAIN pending_blocks \/ pending_blocks[i] = <<>>)

\* Piece i is pending with partial coverage: it has descriptors, and they are
\* not the single descriptor offset 0 / length piece_length.
PartiallyPending(i) ==
    /\ i \in DOMAIN pending_blocks
    /\ pending_blocks[i] # <<>>
    /\ pending_blocks[i] # <<PieceMessage(i, 0, PieceLength)>>

\* C19: no piece index is at the same time Good in old_states and pending
\* with partial coverage.
GoodOrPartiallyPending ==
    \A i \in Pieces : ~(Good(i) \in old_states /\ PartiallyPending(i))

\* C20: old_states never holds both Good(i) and Bad(i) for one piece index.
ConsistentVerdicts ==
    \A i \in Pieces : ~(Good(i) \in old_states /\ Bad(i) \in old_states)

\* ------------------------------------------------------------------------
\* Properties of the checker
\* ------------------------------------------------------------------------
FileIndices ==
    1 .. Len(info_dict.files)

PathOfFile(k) ==
    build_path(info_dict.directory, info_dict.files[k])

WritesTo(path) ==
    {k \in 1 .. Len(writes) : writes[k].file_path = path}

WasEmpty(path) ==
    fs0[path] = Absent \/ fs0[path] = 0

PieceIndices ==
    0 .. (Len(info_dict.pieces) - 1)

\* The digest of the bytes of piece i on disk is the expected digest at i.
DigestMatches(i) ==
    Hash(OnDisk(info_dict, i)) = info_dict.pieces[i + 1]

\* C6: an error-free calculate_diff of a checker built by PieceChecker::new
\* leaves in new_states exactly one verdict for every piece index, Good(i) iff
\* the digest of the piece's bytes on disk equals the expected digest at i,
\* Bad(i) otherwise.
FreshVerdicts ==
    (lastOp = "calculate_diff" /\ returned = Ok) =>
        /\ Len(new_states) = Len(info_dict.pieces)
        /\ \A i \in PieceIndices :
              /\ Count(new_states, Good(i)) + Count(new_states, Bad(i)) = 1
              /\ Good(i) \in Range(new_states) <=> DigestMatches(i)

\* C8: after a successful validation every file that was absent or empty has
\* its expected size N, one zero byte having been written at offset N - 1, and
\* a file that already had its expected size was not written to.
FileAllocation ==
    (lastOp = "new" /\ returned = Ok) =>
        \A k \in FileIndices :
            /\ WasEmpty(PathOfFile(k)) =>
                  /\ fs[PathOfFile(k)] = info_dict.files[k].length
                  /\ info_dict.files[k].length > 0 =>
                        /\ Cardinality(WritesTo(PathOfFile(k))) = 1
                        /\ \A w \in WritesTo(PathOfFile(k)) :
                              writes[w].offset = info_dict.files[k].length - 1
            /\ fs0[PathOfFile(k)] = info_dict.files[k].length =>
                  WritesTo(PathOfFile(k)) = {}

\* C9: validation writes to no file that had a nonzero size when it was
\* opened and leaves such a file as it was; it does not succeed when a file
\* has a nonzero size other than the expected one; and an
\* ExistingFileSizeCheck error carries the path, the expected size and the
\* actual size of such a file.
ExistingDataKept ==
    /\ \A w \in 1 .. Len(writes) :
          writes[w].size_at_open = 0 /\ WasEmpty(writes[w].file_path)
    /\ \A path \in DOMAIN fs : ~WasEmpty(path) => fs[path] = fs0[path]
    /\ (lastOp = "new" /\ returned = Ok) =>
          \A k \in FileIndices :
              WasEmpty(PathOfFile(k)) \/ fs0[PathOfFile(k)] = info_dict.files[k].length
    /\ (lastOp = "new" /\ returned.kind = "ExistingFileSizeCheck") =>
          \E k \in FileIndices :
              /\ returned.file_path = PathOfFile(k)
              /\ returned.expected_size = info_dict.files[k].length
              /\ returned.actual_size = fs0[PathOfFile(k)]
              /\ returned.actual_size # 0
              /\ returned.actual_size # returned.expected_size
              /\ WritesTo(PathOfFile(k)) = {}

\* Validation allocated the first file, then refused the second, which held
\* data of another size.
ExistingDataWitness ==
    /\ lastOp = "new"
    /\ returned.kind = "ExistingFileSizeCheck"
    /\ returned.file_path = PathOfFile(2)
    /\ Len(writes) = 1
    /\ writes[1].file_path = PathOfFile(1)
    /\ fs[PathOfFile(2)] = fs0[PathOfFile(2)]

\* C10: when the piece reader fails during calculate_diff the error is
\* returned and the verdicts collected before it, with pending_blocks and
\* old_states, stay with the caller.
VerdictsSurviveFailedPass ==
    (lastOp = "calculate_diff" /\ returned = IoError /\ Len(calls) > 1) =>
        /\ owner = "caller"
        /\ Len(new_states) = Len(calls) - 1

\* The file-system steps of construction that failed.
FailedSteps ==
    {k \in 1 .. Len(steps) :
        steps[k] \in {"open_file failed", "file_size failed", "write_file failed"}}

\* C11: every fallible file-system step of PieceChecker::new (open_file,
\* file_size, the allocating write_file) succeeds or makes new return an
\* error: new does not return Ok after a step has failed.
NoSwallowedError ==
    (lastOp = "new" /\ FailedSteps # {}) =>
        /\ returned # Ok
        /\ checker = "failed"

\* The tracker of a checker just returned by PieceChecker::new: no verdicts,
\* and one pending descriptor offset 0 / length piece_length per piece index.
FreshlySeeded ==
    /\ new_states = <<>>
    /\ old_states = {}
    /\ DOMAIN pending_blocks = PieceIndices
    /\ \A i \in PieceIndices :
          pending_blocks[i] = <<PieceMessage(i, 0, info_dict.piece_length)>>

\* C16: in PieceChecker::new the validation of all files finishes before any
\* pending block is added; when validation returns an error, new returns that
\* error, seeds no pending block and returns no checker; when it succeeds the
\* returned checker's tracker has empty new_states and old_states and exactly
\* one pending descriptor offset 0 / length piece_length per piece index.
ValidationPrecedesSeeding ==
    lastOp = "new" =>
        /\ \A j, k \in 1 .. Len(steps) :
              (j < k /\ steps[j] = "add_pending_block") => steps[k] = "add_pending_block"
        /\ Count(steps, "add_pending_block") > 0 =>
              /\ Count(steps, "validate_file") = Len(info_dict.files)
              /\ Count(steps, "validated") = 1
        /\ returned # Ok =>
              /\ returned.kind \in {"Io", "ExistingFileSizeCheck"}
              /\ Count(steps, "validated") = 0
              /\ Count(steps, "add_pending_block") = 0
              /\ pending_blocks = NewState.pending_blocks
              /\ checker = "failed"
              /\ owner = "dropped"
        /\ returned = Ok =>
              /\ Count(steps, "add_pending_block") = Len(info_dict.pieces)
              /\ FreshlySeeded
              /\ checker = "built"
              /\ owner = "checker"

\* new validated both files, then seeded two pieces.
ValidationPrecedesWitness ==
    /\ lastOp = "new"
    /\ returned = Ok
    /\ steps = <<"validate_file", "validate_file", "validated",
                 "add_pending_block", "add_pending_block">>
    /\ Len(info_dict.pieces) = 2

\* The last piece index of the torrent and the piece's true length.
LastPiece ==
    Len(info_dict.pieces) - 1

\* C15: when the last piece has a true length T smaller than the piece
\* length and the blocks recorded for it cover exactly [0, T), the pass of
\* calculate_diff selects it and invokes the verify function for it.
ShortFinalPiece ==
    (/\ lastOp = "calculate_diff"
     /\ result = "ok"
     /\ LastPiece >= 0
     /\ PieceBytesLen(info_dict, LastPiece) < info_dict.piece_length
     /\ blocks[LastPiece] # {}
     /\ Coverage(LastPiece) = 0 .. (PieceBytesLen(info_dict, LastPiece) - 1)
     /\ Good(LastPiece) \notin old_states) =>
        Count(calls, LastPiece) = 1

\* C17: on either construction path, calculate_diff hashes a piece only when
\* the file-size validation has run and succeeded for the checker.
ValidationBeforeHashing ==
    (lastOp = "calculate_diff" /\ calls # <<>>) =>
        /\ Count(steps, "validate_file") = Len(info_dict.files)
        /\ Count(steps, "validated") = 1

\* C18: when calculate_diff verifies a piece whose index has no expected
\* digest in the info dictionary it returns an error to the caller; it does
\* not panic.
MissingDigestIsError ==
    (lastOp = "calculate_diff" /\ \E k \in 1 .. Len(calls) : calls[k] >= Len(info_dict.pieces)) =>
        /\ ~panicked
        /\ returned.kind \in {"Io", "ExistingFileSizeCheck", "MissingDigest"}

\* ------------------------------------------------------------------------
\* Properties of the merger
\* ------------------------------------------------------------------------
Min(x, y) ==
    IF x <= y THEN x ELSE y

EndOf(m) ==
    m.block_offset + m.block_length

\* C4: two descriptors [a,b) and [c,d) merge iff c is in [a,b] or a is in
\* [c,d], and the merged descriptor is offset min(a,c), length
\* max(b,d) - min(a,c).
MergeCorrectness ==
    merged_ab # NoMergeCall =>
        LET a == message_a.block_offset
            b == EndOf(message_a)
            c == message_b.block_offset
            d == EndOf(message_b)
        IN  /\ (merged_ab # None) <=> ((c >= a /\ c <= b) \/ (a >= c /\ a <= d))
            /\ merged_ab # None =>
                  merged_ab = Some(PieceMessage(message_a.piece_index, Min(a, c), Max(b, d) - Min(a, c)))

\* C5: merge_piece_messages(x, y) and merge_piece_messages(y, x) both return
\* no merge or both return the same descriptor, whose bytes contain every byte
\* of x and of y.
MergeCommutes ==
    (merged_ab # NoMergeCall /\ merged_ba # NoMergeCall) =>
        /\ merged_ab = merged_ba
        /\ merged_ab # None =>
              (ByteSet(message_a) \cup ByteSet(message_b)) \subseteq ByteSet(merged_ab[1])

\* Both orders were called on two distinct overlapping descriptors and merged.
MergeCommutesWitness ==
    /\ merged_ab # NoMergeCall
    /\ merged_ba # NoMergeCall
    /\ merged_ab # None
    /\ message_a.block_offset > message_b.block_offset
    /\ message_b.block_length > 0

====
